---- MODULE Spec2Model ----
(***************************************************************************)
(* Seat booking lifecycle of MovieTicket_LLD (src/main.py).                *)
(*                                                                         *)
(* The state is the status of every seat of the one show, every customer's *)
(* bookings mapping, and, per customer, the position in the booking flow   *)
(* of main() (lines 297-311) with the flow's local variables.  Customers   *)
(* run the flow and cancel_booking; the steps of different customers       *)
(* interleave.  flows counts the runs of the booking flow started; at most *)
(* MaxFlows of them are explored.                                          *)
(*                                                                         *)
(* Money: base_price is a whole number of rupees; every price computed     *)
(* from it is kept in half-rupees, so that base_price * 1.5 is exact       *)
(* (300.0 rupees is 600).                                                  *)
(***************************************************************************)
EXTENDS Integers, Sequences, FiniteSets

\* ---------------------------------------------------------------- bounds
NumSeats == 2
NumCustomers == 2
NumBookingIds == 1
MaxBasePrice == 3
MaxFlows == 2

\* base_price = 200.0 in main()
DemoBasePrice == 200

Seats == 1..NumSeats
Customers == 1..NumCustomers
BookingIds == 1..NumBookingIds
BasePrices == (1..MaxBasePrice) \cup {DemoBasePrice}

\* ---------------------------------------------------------------- types
SeatStatus == {"BOOKED", "AVAILABLE"}

SeatType == {"GOLD", "PREMIUM"}

\* show.seats, in the order the show was built with
ShowSeats == [i \in 1..NumSeats |-> i]

\* S1 is GOLD, S2 is PREMIUM, and so on alternately
seat_type(s) == IF s % 2 = 1 THEN "GOLD" ELSE "PREMIUM"

NoBooking == [id |-> 0, customer |-> 0, seats |-> <<>>, total_price |-> 0]

Results == {"none", "BookingSuccessful", "PaymentFailed", "NoAvailableSeats",
            "BookingCancelled", "NoBookingFound"}

VARIABLES base_price, status, bookings, pc, selected_seats, booking, result, flows

vars == <<base_price, status, bookings, pc, selected_seats, booking, result, flows>>

\* ---------------------------------------------------------------- pricing
\* base_price * 1.5, in half-rupees
GoldPricingStrategy_get_price(bp) == bp * 3

PremiumCopiesGold(bp) == bp * 3

\* base_price * 2, in half-rupees
PremiumPricingStrategy_get_price(bp) == bp * 4

\* Seat.get_price: delegates to the seat's pricing strategy
Seat_get_price(s, bp) ==
  IF seat_type(s) = "GOLD" THEN GoldPricingStrategy_get_price(bp)
  ELSE PremiumPricingStrategy_get_price(bp)

RECURSIVE SumPrices(_, _)
\* sum(seat.get_price(base_price) for seat in seats)
SumPrices(seats, bp) ==
  IF seats = <<>> THEN 0
  ELSE Seat_get_price(Head(seats), bp) + SumPrices(Tail(seats), bp)

\* PaymentGateway.process_payment: random.choice([True, True, True, False])
process_payment(amount) == {TRUE, FALSE}

\* ---------------------------------------------------------------- helpers
Range(q) == {q[i] : i \in 1..Len(q)}

InList(q, s) == \E i \in 1..Len(q) : q[i] = s

\* [seat for seat in show.seats if seat.status == SeatStatus.AVAILABLE]
available_seats(st) == SelectSeq(ShowSeats, LAMBDA s : st[s] = "AVAILABLE")

\* a selection out of a list: the members of S, in the order of the list
Selection(q, S) == SelectSeq(q, LAMBDA s : s \in S)

MarkFirstSeatOnly(st, seats) ==
  [s \in Seats |-> IF seats # <<>> /\ s = Head(seats) THEN "BOOKED" ELSE st[s]]

\* for seat in seats: seat.status = SeatStatus.BOOKED
MarkBooked(st, seats) ==
  [s \in Seats |-> IF InList(seats, s) THEN "BOOKED" ELSE st[s]]

ReleaseFirstSeatOnly(st, seats) ==
  [s \in Seats |-> IF seats # <<>> /\ s = Head(seats) THEN "AVAILABLE" ELSE st[s]]

\* for seat in booking.seats: seat.status = SeatStatus.AVAILABLE
MarkAvailable(st, seats) ==
  [s \in Seats |-> IF InList(seats, s) THEN "AVAILABLE" ELSE st[s]]

\* Booking.__init__: the fields of the new Booking
NewBooking(id, c, seats, bp) ==
  [id |-> id, customer |-> c, seats |-> seats, total_price |-> SumPrices(seats, bp)]

\* ---------------------------------------------------------------- state
\* main(): both seats are built AVAILABLE, the customer has no bookings,
\* base_price = 200.0
Init ==
  /\ base_price = DemoBasePrice
  /\ status = [s \in Seats |-> "AVAILABLE"]
  /\ bookings = [c \in Customers |-> [id \in BookingIds |-> NoBooking]]
  /\ pc = [c \in Customers |-> "idle"]
  /\ selected_seats = [c \in Customers |-> <<>>]
  /\ booking = [c \in Customers |-> NoBooking]
  /\ result = [c \in Customers |-> "none"]
  /\ flows = 0

\* ---------------------------------------------------------------- booking flow
\* available_seats is not empty: selected_seats is taken out of it
\* (main() takes [available_seats[0]]; here any non-empty selection)
SelectSeats(c, S) ==
  /\ pc[c] = "idle"
  /\ flows < MaxFlows
  /\ available_seats(status) # <<>>
  /\ S # {}
  /\ S \subseteq Range(available_seats(status))
  /\ selected_seats' = [selected_seats EXCEPT ![c] = Selection(available_seats(status), S)]
  /\ pc' = [pc EXCEPT ![c] = "pay"]
  /\ flows' = flows + 1
  /\ UNCHANGED <<base_price, status, bookings, booking, result>>

\* available_seats is empty: "No available seats to book."
NoAvailableSeats(c) ==
  /\ pc[c] = "idle"
  /\ flows < MaxFlows
  /\ available_seats(status) = <<>>
  /\ result' = [result EXCEPT ![c] = "NoAvailableSeats"]
  /\ flows' = flows + 1
  /\ UNCHANGED <<base_price, status, bookings, pc, selected_seats, booking>>

\* total_price of the selection goes to the payment gateway; a declined
\* payment ends the flow with "Payment failed. Booking not completed."
ProcessPayment(c) ==
  /\ pc[c] = "pay"
  /\ \E approved \in process_payment(SumPrices(selected_seats[c], base_price)) :
       IF approved
       THEN /\ pc' = [pc EXCEPT ![c] = "construct"]
            /\ UNCHANGED <<selected_seats, result>>
       ELSE /\ pc' = [pc EXCEPT ![c] = "idle"]
            /\ selected_seats' = [selected_seats EXCEPT ![c] = <<>>]
            /\ result' = [result EXCEPT ![c] = "PaymentFailed"]
  /\ UNCHANGED <<base_price, status, bookings, booking, flows>>

\* booking = Booking(id, customer, show, selected_seats, base_price)
Booking_init(c, id) ==
  /\ pc[c] = "construct"
  /\ booking' = [booking EXCEPT ![c] = NewBooking(id, c, selected_seats[c], base_price)]
  /\ status' = MarkBooked(status, selected_seats[c])
  /\ pc' = [pc EXCEPT ![c] = "store"]
  /\ UNCHANGED <<base_price, bookings, selected_seats, result, flows>>

\* customer.create_booking(booking): self.bookings[booking.id] = booking,
\* then "Booking Successful!" and the flow's locals go out of use
create_booking(c) ==
  /\ pc[c] = "store"
  /\ bookings' = [bookings EXCEPT ![c][booking[c].id] = booking[c]]
  /\ result' = [result EXCEPT ![c] = "BookingSuccessful"]
  /\ pc' = [pc EXCEPT ![c] = "idle"]
  /\ selected_seats' = [selected_seats EXCEPT ![c] = <<>>]
  /\ booking' = [booking EXCEPT ![c] = NoBooking]
  /\ UNCHANGED <<base_price, status, flows>>

\* ---------------------------------------------------------------- cancellation
cancel_booking_any_owner(c, id) ==
  /\ pc[c] = "idle"
  /\ IF \E o \in Customers : bookings[o][id] # NoBooking
     THEN \E o \in Customers :
            /\ bookings[o][id] # NoBooking
            /\ status' = MarkAvailable(status, bookings[o][id].seats)
            /\ bookings' = [bookings EXCEPT ![o][id] = NoBooking]
            /\ result' = [result EXCEPT ![c] = "BookingCancelled"]
     ELSE /\ result' = [result EXCEPT ![c] = "NoBookingFound"]
          /\ UNCHANGED <<status, bookings>>
  /\ UNCHANGED <<base_price, pc, selected_seats, booking, flows>>

\* Customer.cancel_booking(booking_id)
cancel_booking(c, id) ==
  /\ pc[c] = "idle"
  /\ IF bookings[c][id] # NoBooking
     THEN /\ status' = MarkAvailable(status, bookings[c][id].seats)
          /\ bookings' = [bookings EXCEPT ![c][id] = NoBooking]
          /\ result' = [result EXCEPT ![c] = "BookingCancelled"]
     ELSE /\ result' = [result EXCEPT ![c] = "NoBookingFound"]
          /\ UNCHANGED <<status, bookings>>
  /\ UNCHANGED <<base_price, pc, selected_seats, booking, flows>>

\* ---------------------------------------------------------------- specifications
Next ==
  \E c \in Customers :
    \/ \E S \in SUBSET Seats : SelectSeats(c, S)
    \/ NoAvailableSeats(c)
    \/ ProcessPayment(c)
    \/ \E id \in BookingIds : Booking_init(c, id)
    \/ create_booking(c)
    \/ \E id \in BookingIds : cancel_booking(c, id)

Spec == Init /\ [][Next]_vars

\* Every customer runs the booking flow once, concurrently with the others,
\* and nobody cancels.
RaceSelectSeats(c, S) == result[c] = "none" /\ SelectSeats(c, S)

RaceNoAvailableSeats(c) == result[c] = "none" /\ NoAvailableSeats(c)

RaceNext ==
  \E c \in Customers :
    \/ \E S \in SUBSET Seats : RaceSelectSeats(c, S)
    \/ RaceNoAvailableSeats(c)
    \/ ProcessPayment(c)
    \/ \E id \in BookingIds : Booking_init(c, id)
    \/ create_booking(c)

\* as Init, with base_price any of BasePrices
RaceInit ==
  /\ base_price \in BasePrices
  /\ status = [s \in Seats |-> "AVAILABLE"]
  /\ bookings = [c \in Customers |-> [id \in BookingIds |-> NoBooking]]
  /\ pc = [c \in Customers |-> "idle"]
  /\ selected_seats = [c \in Customers |-> <<>>]
  /\ booking = [c \in Customers |-> NoBooking]
  /\ result = [c \in Customers |-> "none"]
  /\ flows = 0

RaceSpec == RaceInit /\ [][RaceNext]_vars

\* ---------------------------------------------------------------- observers
\* the bookings stored in customer c's bookings mapping
LiveBookings(c) == {bookings[c][id] : id \in BookingIds} \ {NoBooking}

\* the seats named by the bookings stored for customer c
LiveSeats(c) == UNION {Range(b.seats) : b \in LiveBookings(c)}

\* the stored bookings, of any customer, that name seat s
Holders(s) ==
  {h \in Customers \X BookingIds :
     bookings[h[1]][h[2]] # NoBooking /\ InList(bookings[h[1]][h[2]].seats, s)}

\* customer c's flow has ended with a stored booking
Succeeded(c) == pc[c] = "idle" /\ result[c] = "BookingSuccessful"

AllBooked(S) == \A s \in S : status[s] = "BOOKED"

\* ---------------------------------------------------------------- C1
\* C1: when customers run the booking flow concurrently on overlapping seat
\* sets, exactly one of them ends with a recorded booking: there is never a
\* double success on a shared seat, that is, no two customers both end with
\* a recorded booking naming the same seat.
C1_NoDoubleSuccess ==
  \A c1, c2 \in Customers :
    (c1 # c2 /\ Succeeded(c1) /\ Succeeded(c2))
      => LiveSeats(c1) \cap LiveSeats(c2) = {}

\* ---------------------------------------------------------------- C2
\* C2: claiming seats is all-or-nothing: a Booking construction that names a
\* seat that is not AVAILABLE creates no Booking and leaves every seat's
\* status as it was.
C2_AllOrNothing ==
  [][\A c \in Customers :
       ( /\ pc[c] = "construct"
         /\ pc'[c] # "construct"
         /\ \E s \in Range(selected_seats[c]) : status[s] # "AVAILABLE" )
       => (status' = status /\ booking'[c] = NoBooking)]_vars

\* ---------------------------------------------------------------- C3
\* C3: when the payment is declined, at the return of the attempt every seat
\* it selected is AVAILABLE and the customer's bookings mapping is as before.
C3_DeclineLeavesSeatsAvailable ==
  [][\A c \in Customers :
       (pc[c] = "pay" /\ pc'[c] = "idle" /\ result'[c] = "PaymentFailed")
       => ( /\ \A s \in Range(selected_seats[c]) : status'[s] = "AVAILABLE"
            /\ bookings'[c] = bookings[c] )]_vars

\* ---------------------------------------------------------------- C4
\* C4: a step that cancels a stored booking (its record leaves the owner's
\* mapping) leaves every seat of that booking AVAILABLE, as a seat never
\* booked, and selectable by the next booking flow; no other seat changes
\* and the owner is told the booking was cancelled.
C4_CancelRoundTrip ==
  [][\A c \in Customers : \A id \in BookingIds :
       (bookings[c][id] # NoBooking /\ bookings'[c][id] = NoBooking)
       => ( /\ \A s \in Seats :
                 status'[s] = IF s \in Range(bookings[c][id].seats)
                              THEN "AVAILABLE" ELSE status[s]
            /\ Range(bookings[c][id].seats) \subseteq Range(available_seats(status'))
            /\ result'[c] = "BookingCancelled" )]_vars

\* after customer 1 booked and cancelled, customer 2 holds a booking of every
\* seat of the show: the cancelled seats were booked again
C4_Witness ==
  /\ flows = 2
  /\ Succeeded(2)
  /\ pc[1] = "idle" /\ result[1] = "BookingCancelled"
  /\ LiveBookings(1) = {}
  /\ \E b \in LiveBookings(2) : Range(b.seats) = Seats
  /\ AllBooked(Seats)

\* ---------------------------------------------------------------- C5
\* C5: cancel_booking with an id that is not in the caller's own bookings
\* mapping reports that no booking was found and changes no seat status and
\* no booking record of any customer; and whenever that report is made,
\* nothing else changed.
C5_CancelUnknownBooking ==
  [][\A c \in Customers :
       /\ \A id \in BookingIds :
            (bookings[c][id] = NoBooking /\ cancel_booking(c, id))
            => ( /\ result'[c] = "NoBookingFound"
                 /\ status' = status
                 /\ bookings' = bookings )
       /\ (result'[c] = "NoBookingFound" /\ result[c] # "NoBookingFound")
            => (status' = status /\ bookings' = bookings)]_vars

\* customer 1 is told no booking was found while customer 2 holds a stored
\* booking whose seats are all still BOOKED
C5_Witness ==
  /\ result[1] = "NoBookingFound"
  /\ LiveBookings(1) = {}
  /\ LiveBookings(2) # {}
  /\ AllBooked(LiveSeats(2))

\* ---------------------------------------------------------------- C6
\* C6: cancelling a stored booking one of whose seats is not BOOKED fails:
\* no seat status changes and the record stays in the customer's mapping.
C6_CancelNotBooked ==
  [][\A c \in Customers : \A id \in BookingIds :
       ( /\ bookings[c][id] # NoBooking
         /\ \E s \in Range(bookings[c][id].seats) : status[s] # "BOOKED"
         /\ cancel_booking(c, id) )
       => (status' = status /\ bookings' = bookings)]_vars

\* ---------------------------------------------------------------- C7
\* the price of a seat list in half-rupees, by counting: 1.5 base prices for
\* each GOLD seat and 2 base prices for each PREMIUM seat
ExpectedPrice(seats) ==
  base_price * ( 3 * Cardinality({i \in 1..Len(seats) : seat_type(seats[i]) = "GOLD"})
               + 4 * Cardinality({i \in 1..Len(seats) : seat_type(seats[i]) = "PREMIUM"}) )

\* the Booking objects that exist: constructed and not yet stored, or stored
Constructed ==
  {booking[c] : c \in {c \in Customers : pc[c] = "store"}}
    \cup UNION {LiveBookings(c) : c \in Customers}

\* C7: every booking's total price is the sum over its seats of base price
\* times the seat type's multiplier (GOLD 1.5, PREMIUM 2.0; base price 200
\* and the one GOLD seat S1 give 300.0, that is 600 half-rupees), and the
\* seats of the booking are BOOKED.
C7_TotalPrice ==
  \A b \in Constructed :
    /\ b.total_price = ExpectedPrice(b.seats)
    /\ (base_price = 200 /\ b.seats = <<1>>) => b.total_price = 600
    /\ AllBooked(Range(b.seats))

\* a stored booking of GOLD seat S1 at base price 200 costs 300.0, and a
\* booking of both seats S1, S2 has been constructed too
C7_Witness ==
  /\ base_price = 200
  /\ \E b \in LiveBookings(1) : b.seats = <<1>> /\ b.total_price = 600
  /\ status[1] = "BOOKED"
  /\ pc[2] = "store" /\ booking[2].seats = <<1, 2>> /\ booking[2].total_price = 1400

\* ---------------------------------------------------------------- C8
LegalTransitions ==
  { <<"AVAILABLE", "HELD">>, <<"HELD", "BOOKED">>,
    <<"BOOKED", "AVAILABLE">>, <<"HELD", "AVAILABLE">> }

\* C8: in every step every seat's status stays the same or makes one of the
\* transitions Available -> Held, Held -> Booked, Booked -> Available,
\* Held -> Available.
C8_SeatStateMachine ==
  [][\A s \in Seats :
       status'[s] = status[s] \/ <<status[s], status'[s]>> \in LegalTransitions]_vars

\* ---------------------------------------------------------------- C9
\* C9: two customers whose flows both ended with a stored booking, on
\* disjoint seat sets A and B: every seat of A and of B is BOOKED, each of
\* the two holds exactly the one booking it made, in its own mapping, at the
\* right price; and once every customer's flow has ended, the seats BOOKED
\* are exactly the seats of the stored bookings, whatever the order of the
\* steps was.
C9_DisjointBothSucceed ==
  /\ \A c1, c2 \in Customers :
       ( /\ c1 # c2
         /\ Succeeded(c1) /\ Succeeded(c2)
         /\ LiveSeats(c1) \cap LiveSeats(c2) = {} )
       => ( /\ AllBooked(LiveSeats(c1) \cup LiveSeats(c2))
            /\ \A c \in {c1, c2} :
                 /\ Cardinality(LiveBookings(c)) = 1
                 /\ \A b \in LiveBookings(c) :
                      /\ b.customer = c
                      /\ b.seats # <<>>
                      /\ b.total_price = ExpectedPrice(b.seats) )
  /\ (\A c \in Customers : pc[c] = "idle" /\ result[c] # "none")
       => \A s \in Seats :
            status[s] = "BOOKED" <=> \E c \in Customers : s \in LiveSeats(c)

\* both customers succeeded, customer 1 on S1 and customer 2 on S2
C9_Witness ==
  /\ Succeeded(1) /\ Succeeded(2)
  /\ LiveSeats(1) = {1}
  /\ LiveSeats(2) = {2}
  /\ AllBooked({1, 2})

\* ---------------------------------------------------------------- C10
\* C10: whenever no customer is inside the booking flow, a seat is BOOKED
\* if and only if exactly one stored booking names it.
C10_BookedIffOneLiveBooking ==
  (\A c \in Customers : pc[c] = "idle")
    => \A s \in Seats : status[s] = "BOOKED" <=> Cardinality(Holders(s)) = 1

====
